---- MODULE Spec2Model ----
(***************************************************************************)
(* A model of the structured-logging facade of the repository:             *)
(*   src/elk-logger.js                  severity policy, sink set, router, *)
(*                                      remote (Elasticsearch) sink, index *)
(*                                      naming                             *)
(*   src/response-logger-middleware.js  the request boundary               *)
(*                                                                         *)
(* JavaScript values are modelled as records carrying a "type" field, so   *)
(* that undefined, a Response and an Error stay distinguishable.  Time is  *)
(* counted in quarter hours since the Unix epoch: the calendar getters of  *)
(* Date depend only on the local day a timestamp falls in, and every UTC   *)
(* offset in use is a multiple of a quarter hour.                          *)
(***************************************************************************)
EXTENDS Integers, Sequences, FiniteSets, Bags, TLC

VARIABLES
    env,         \* Deno.env.get("APPLICATION_ENV"), read at module load
    tz,          \* the process's UTC offset, in quarter hours
    now,         \* Date.now(), in quarter hours since the epoch
    logLevel,    \* elk-logger.js: const logLevel
    streams,     \* elk-logger.js: const streams
    req,         \* per request: the middleware's locals and position
    calls,       \* per caller: its logError/logWarn/logInfo/logDebug calls, in order
    sinkWrites,  \* per sink: the bag of records written to it
    esBuffer,    \* the remote sink's buffer of records not yet flushed
    esInflight,  \* batches sent to the remote store whose outcome is pending
    esBatches,   \* every batch ever sent to the remote store, in order
    consoleLog,  \* the lines written with console.log
    logTime,     \* the arguments of the getIndexFromLogTime calls under study
    indexKey     \* their results

vars == <<env, tz, now, logLevel, streams, req, calls, sinkWrites,
          esBuffer, esInflight, esBatches, consoleLog, logTime, indexKey>>

-----------------------------------------------------------------------------
(* Bounds of the model.                                                    *)

NumReqs == 2
MaxDirect == 2
MaxClock == 1

Reqs == 1..NumReqs

-----------------------------------------------------------------------------
(* JavaScript values.                                                      *)

Undefined == [type |-> "undefined"]
Response(ref, s) == [type |-> "Response", ref |-> ref, status |-> s]
Error(ctor, msg) ==
    [type |-> "Error", ctor |-> ctor, message |-> msg, stack |-> ctor \o ": " \o msg \o " at handler"]

IsNullish(v) == v.type = "undefined"

\* Reading property p of undefined throws this TypeError.
PropertyTypeError(p) ==
    Error("TypeError", "Cannot read properties of undefined (reading '" \o p \o "')")

\* { ...first, ...later }: on a shared key the later operand wins.
Spread(first, later) == later @@ first

\* String.prototype.toUpperCase on the method names of the model.
toUpperCase(s) ==
    CASE s = "patch" -> "PATCH"
      [] s = "get" -> "GET"
      [] OTHER -> s

-----------------------------------------------------------------------------
(* Severity policy: elk-logger.js, LOG_LEVELS and logLevel.                *)

Severities == {"debug", "info", "warn", "error"}

\* The numeric order of the logger's levels: debug < info < warn < error.
LevelNum(l) ==
    CASE l = "debug" -> 20
      [] l = "info" -> 30
      [] l = "warn" -> 40
      [] l = "error" -> 50

NoValue == "<undefined>"

LOG_LEVELS ==
    [development |-> "debug", test |-> "info", staging |-> "warn", production |-> "error"]

\* LOG_LEVELS is an object literal: a key it does not own is looked up on
\* Object.prototype, whose members are functions (or, for __proto__, an object).
ObjectPrototypeKeys ==
    {"constructor", "toString", "toLocaleString", "valueOf", "hasOwnProperty",
     "isPrototypeOf", "propertyIsEnumerable", "__proto__"}

\* A property key is a string: undefined is looked up as "undefined".
PropertyKey(v) == IF v = NoValue THEN "undefined" ELSE v

GetProperty(obj, key) ==
    IF key \in DOMAIN obj THEN obj[key]
    ELSE IF key \in ObjectPrototypeKeys THEN "[inherited " \o key \o "]"
    ELSE NoValue

Truthy(v) == v # NoValue /\ v # ""

\* LOG_LEVELS[Deno.env.get("APPLICATION_ENV")] || "info"
ResolveLogLevel(e) ==
    LET v == GetProperty(LOG_LEVELS, PropertyKey(e))
    IN  IF Truthy(v) THEN v ELSE "info"

\* The values APPLICATION_ENV takes in the model; NoValue is the unset variable.
EnvValues ==
    {"development", "test", "staging", "production", "qa", "constructor", NoValue}

-----------------------------------------------------------------------------
(* Index naming: elk-logger.js, getIndexFromLogTime.                       *)

QuartersPerDay == 4 * 24

\* The civil date of a day number (days since 1970-01-01), as Date's
\* YearFromTime / MonthFromTime / DateFromTime compute it; month is 1..12.
CivilFromDays(days) ==
    LET z == days + 719468
        era == z \div 146097
        doe == z - era * 146097
        yoe == (doe - doe \div 1460 + doe \div 36524 - doe \div 146096) \div 365
        doy == doe - (365 * yoe + yoe \div 4 - yoe \div 100)
        mp == (5 * doy + 2) \div 153
        d == doy - (153 * mp + 2) \div 5 + 1
        m == IF mp < 10 THEN mp + 3 ELSE mp - 9
        y == yoe + era * 400 + (IF m <= 2 THEN 1 ELSE 0)
    IN  [year |-> y, month |-> m, day |-> d]

\* The day number of a civil date (the inverse of CivilFromDays).
DaysFromCivil(y, m, d) ==
    LET yy == IF m <= 2 THEN y - 1 ELSE y
        era == yy \div 400
        yoe == yy - era * 400
        mp == IF m > 2 THEN m - 3 ELSE m + 9
        doy == (153 * mp + 2) \div 5 + d - 1
        doe == yoe * 365 + yoe \div 4 - yoe \div 100 + doy
    IN  era * 146097 + doe - 719468

\* The instant y-m-dTh:q (q quarter hours past h) UTC.
UtcTime(y, m, d, h, q) == DaysFromCivil(y, m, d) * QuartersPerDay + h * 4 + q

MutLocalDayUtc(t, offset) == t \div QuartersPerDay

\* The local day a timestamp falls in: getFullYear, getMonth and getDate read
\* the local time, t shifted by the process's UTC offset.
LocalDay(t, offset) == (t + offset) \div QuartersPerDay

\* String(n).padStart(2, "0")
padStart2(n) == IF Len(ToString(n)) < 2 THEN "0" \o ToString(n) ELSE ToString(n)

MutIndexUnpaddedDay(t, offset) ==
    LET date == CivilFromDays(LocalDay(t, offset))
    IN  "logstash-" \o ToString(date.year) \o "." \o padStart2(date.month)
            \o "." \o ToString(date.day)

getIndexFromLogTime(t, offset) ==
    LET date == CivilFromDays(LocalDay(t, offset))
        year == date.year                     \* date.getFullYear()
        month == padStart2(date.month)        \* String(date.getMonth() + 1).padStart(2, "0")
        day == padStart2(date.day)            \* String(date.getDate()).padStart(2, "0")
    IN  "logstash-" \o ToString(year) \o "." \o month \o "." \o day

-----------------------------------------------------------------------------
(* Sink set: elk-logger.js, streams.                                       *)

Sinks == {"pretty", "stdout", "elasticsearch"}

\* The environments in which the remote sink is pushed onto streams.
RemoteEnvs == {"production", "staging", "test"}

MutBuildStreamsRemoteErrorOnly(e, level) ==
    <<[sink |-> IF e = "development" THEN "pretty" ELSE "stdout", level |-> level]>>
    \o (IF e \in {"production", "staging", "test"}
        THEN <<[sink |-> "elasticsearch", level |-> "error"]>>
        ELSE <<>>)

MutBuildStreamsNotDevelopment(e, level) ==
    <<[sink |-> IF e = "development" THEN "pretty" ELSE "stdout", level |-> level]>>
    \o (IF e # "development"
        THEN <<[sink |-> "elasticsearch", level |-> level]>>
        ELSE <<>>)

\* const streams = [{ console }]; if (...) streams.push({ elasticsearch })
BuildStreams(e, level) ==
    <<[sink |-> IF e = "development" THEN "pretty" ELSE "stdout", level |-> level]>>
    \o (IF e \in RemoteEnvs
        THEN <<[sink |-> "elasticsearch", level |-> level]>>
        ELSE <<>>)

\* The logger is constructed only when logLevel names one of its levels:
\* otherwise pino() throws while elk-logger.js is evaluated, and neither the
\* router nor the middleware that imports it exists.
Loaded == logLevel \in Severities

EnabledSinks == {streams[i].sink : i \in DOMAIN streams}

SinkLevel(s) == streams[CHOOSE i \in DOMAIN streams : streams[i].sink = s].level

MutAdmitsAbove(s, level) ==
    /\ s \in EnabledSinks
    /\ LevelNum(SinkLevel(s)) < LevelNum(level)

\* pino.multistream(streams): a record goes to every stream whose level is at
\* most the record's.
Admits(s, level) ==
    /\ s \in EnabledSinks
    /\ LevelNum(SinkLevel(s)) <= LevelNum(level)

-----------------------------------------------------------------------------
(* Log router: elk-logger.js, elkLogger and logError/logWarn/logInfo/      *)
(* logDebug.                                                               *)

APPLICATION_NAME == "fresh-app"

LogFns == {"logDebug", "logInfo", "logWarn", "logError"}

\* Caller 0 stands for the callers other than the middleware.
Callers == {0} \cup Reqs

\* The logger method each function calls.
LevelOf(fn) ==
    CASE fn = "logError" -> "error"
      [] fn = "logWarn" -> "warn"
      [] fn = "logInfo" -> "info"
      [] fn = "logDebug" -> "debug"

\* The key under which each function files its category tag.
CategoryKey(fn) ==
    CASE fn = "logError" -> "errorType"
      [] fn = "logWarn" -> "warningType"
      [] fn = "logInfo" -> "infoType"
      [] fn = "logDebug" -> "debugType"

\* { errorType, ...errorData } and its three siblings: the object handed to
\* the logger.
LoggedObject(fn, type, data) == Spread(CategoryKey(fn) :> type, data)

\* mixin: () => ({ Application: Deno.env.get("APPLICATION_NAME") })
Mixin == [Application |-> APPLICATION_NAME]

\* The record the logger builds: its level, its time, and the logged object
\* merged over the mixin (the logger's default merge is
\* Object.assign(mixinObject, loggedObject)).
FormatRecord(level, obj) ==
    [level |-> level, time |-> now, fields |-> Spread(Mixin, obj)]

\* level: logLevel in pino({...}): calls below the logger's level are no-ops.
LoggerAdmits(level) == LevelNum(level) >= LevelNum(logLevel)

MutRouterLogOverwrite(level, obj) ==
    IF LoggerAdmits(level)
    THEN LET rec == FormatRecord(level, obj)
         IN  /\ sinkWrites' = [s \in Sinks |->
                    IF Admits(s, level) THEN sinkWrites[s] (+) SetToBag({rec})
                    ELSE sinkWrites[s]]
             /\ esBuffer' = IF Admits("elasticsearch", level)
                            THEN <<rec>> ELSE esBuffer
    ELSE UNCHANGED <<sinkWrites, esBuffer>>

\* elkLogger.<level>(obj): format once, write to every admitting stream.  A
\* write to the remote sink puts the record in its buffer.
RouterLog(level, obj) ==
    IF LoggerAdmits(level)
    THEN LET rec == FormatRecord(level, obj)
         IN  /\ sinkWrites' = [s \in Sinks |->
                    IF Admits(s, level) THEN sinkWrites[s] (+) SetToBag({rec})
                    ELSE sinkWrites[s]]
             /\ esBuffer' = IF Admits("elasticsearch", level)
                            THEN Append(esBuffer, rec) ELSE esBuffer
    ELSE UNCHANGED <<sinkWrites, esBuffer>>

\* One call of logError/logWarn/logInfo/logDebug by `by` (a request, or 0 for
\* any other caller in the process).
LogCall(by, fn, type, data) ==
    /\ calls' = [calls EXCEPT ![by] =
                    Append(@, [fn |-> fn, type |-> type, data |-> data, at |-> now])]
    /\ RouterLog(LevelOf(fn), LoggedObject(fn, type, data))

\* Payloads and tags of the calls made by callers other than the middleware.
DirectPayloads ==
    { [message |-> "cache warmed"],
      [message |-> "forged", errorType |-> "Forged", infoType |-> "Forged",
       Application |-> "other-app"] }

RECURSIVE Repeat(_, _)
Repeat(str, n) == IF n = 0 THEN "" ELSE str \o Repeat(str, n - 1)

\* Payloads of the calls that feed the remote sink: a short one, and one
\* carrying a stack trace of fifteen frames.
SinkPayloads ==
    { [message |-> "cache warmed"],
      [message |-> "render failed",
       stack |-> "Error: render failed" \o Repeat(" at render (file:///app/routes/index.js:10:5)", 15)] }

DirectTypes == {"SystemEvent"}

NumDirect == Len(calls[0])

DirectLog(fn, type, data) ==
    /\ Loaded
    /\ NumDirect < MaxDirect
    /\ LogCall(0, fn, type, data)
    /\ UNCHANGED <<env, tz, now, logLevel, streams, req, esInflight, esBatches,
                   consoleLog, logTime, indexKey>>

\* How a stream's write can go wrong: it raises (a closed standard output),
\* or it does not return (a synchronous write to a pipe nobody reads).
WriteFaults == {"throw", "stall"}

\* The place of sink f in the streams list.
StreamIndex(f) == CHOOSE i \in DOMAIN streams : streams[i].sink = f

\* pino.multistream(streams) writes a record to the admitting streams one
\* after the other, in the order of the list, each with a synchronous
\* stream.write(): when the write to sink f raises or does not return, the
\* streams before f have the record and f and the streams after it do not.
FaultyRouterLog(level, obj, f) ==
    LET rec == FormatRecord(level, obj)
        reached(s) == Admits(s, level) /\ StreamIndex(s) < StreamIndex(f)
    IN  /\ sinkWrites' = [s \in Sinks |->
               IF reached(s) THEN sinkWrites[s] (+) SetToBag({rec}) ELSE sinkWrites[s]]
        /\ esBuffer' = IF reached("elasticsearch") THEN Append(esBuffer, rec) ELSE esBuffer

\* A call of logError/logWarn/logInfo/logDebug during which the write to sink
\* f goes wrong: neither the function nor the logger catches anything, so the
\* caller gets the failure or never gets control back.
FaultyLog(fn, type, data, f, how) ==
    /\ Loaded
    /\ NumDirect < MaxDirect
    /\ LoggerAdmits(LevelOf(fn))
    /\ Admits(f, LevelOf(fn))
    /\ calls' = [calls EXCEPT ![0] =
                    Append(@, [fn |-> fn, type |-> type, data |-> data, at |-> now,
                               fault |-> f, how |-> how])]
    /\ FaultyRouterLog(LevelOf(fn), LoggedObject(fn, type, data), f)
    /\ UNCHANGED <<env, tz, now, logLevel, streams, req, esInflight, esBatches,
                   consoleLog, logTime, indexKey>>

-----------------------------------------------------------------------------
(* Request boundary: response-logger-middleware.js.                        *)

\* A method name the runtime hands over in lower case.
Methods == {"patch"}
Urls == {"/foo"}
UserAgent == "curl/8.0"

Statuses == {200, 400, 499, 500}

\* What context.next() can settle with: a response carrying a status, the
\* value undefined, an Error, or the thrown value undefined (a promise
\* rejected without a reason).
DownstreamOutcomes(r) ==
    {[kind |-> "return", value |-> Response(r, s)] : s \in Statuses}
    \cup {[kind |-> "return", value |-> Undefined],
          [kind |-> "throw", value |-> Error("Error", "boom")],
          [kind |-> "throw", value |-> Undefined]}

NoOutcome == [kind |-> "none", value |-> Undefined]

IdleRequest ==
    [pc |-> "IDLE", method |-> "", url |-> "", startTime |-> 0,
     outcome |-> NoOutcome, result |-> NoOutcome]

\* const startTime = Date.now(); const { req: { method, url } } = context;
\* then context.next() is called and the function suspends on the await.
Enter(r, method, url) ==
    /\ Loaded
    /\ req[r].pc = "IDLE"
    /\ req' = [req EXCEPT ![r] = [@ EXCEPT !.pc = "AWAITING", !.method = method,
                                           !.url = url, !.startTime = now]]
    /\ UNCHANGED <<env, tz, now, logLevel, streams, calls, sinkWrites, esBuffer,
                   esInflight, esBatches, consoleLog, logTime, indexKey>>

\* The downstream handler settles: the promise of context.next() is
\* fulfilled or rejected.
Settle(r, o) ==
    /\ req[r].pc = "AWAITING"
    /\ req' = [req EXCEPT ![r] = [@ EXCEPT !.pc = "SETTLED", !.outcome = o]]
    /\ UNCHANGED <<env, tz, now, logLevel, streams, calls, sinkWrites, esBuffer,
                   esInflight, esBatches, consoleLog, logTime, indexKey>>

\* The argument of logError in the catch block.
UnhandledErrorData(r, error) ==
    [error |-> error.message,
     stack |-> error.stack,
     url |-> req[r].url,
     method |-> toUpperCase(req[r].method),
     userAgent |-> UserAgent,
     context |-> [errorType |-> error.ctor, duration |-> now - req[r].startTime]]

\* const logData = { message, method, url, status, duration, userAgent }
LogData(r, status) ==
    [message |-> toUpperCase(req[r].method) \o " " \o req[r].url \o " - " \o ToString(status),
     method |-> toUpperCase(req[r].method),
     url |-> req[r].url,
     status |-> status,
     duration |-> now - req[r].startTime,
     userAgent |-> UserAgent]

MutClassifyStrict(status) ==
    IF status > 500 THEN [fn |-> "logError", type |-> "ResponseError"]
    ELSE IF status > 400 THEN [fn |-> "logWarn", type |-> "ResponseWarning"]
    ELSE [fn |-> "logInfo", type |-> "ResponseSuccess"]

\* if (status >= 500) logError(...) else if (status >= 400) logWarn(...)
\* else logInfo(...)
ClassifyStatus(status) ==
    IF status >= 500 THEN [fn |-> "logError", type |-> "ResponseError"]
    ELSE IF status >= 400 THEN [fn |-> "logWarn", type |-> "ResponseWarning"]
    ELSE [fn |-> "logInfo", type |-> "ResponseSuccess"]

Finish(r, kind, value) ==
    req' = [req EXCEPT ![r] = [@ EXCEPT !.pc = "DONE",
                                        !.result = [kind |-> kind, value |-> value]]]

\* The catch block: build the payload (error.message throws when the caught
\* value is undefined), call logError, re-throw.
AfterRaise(r, error) ==
    IF IsNullish(error)
    THEN /\ Finish(r, "throw", PropertyTypeError("message"))
         /\ UNCHANGED <<calls, sinkWrites, esBuffer>>
    ELSE /\ LogCall(r, "logError", "UnhandledError", UnhandledErrorData(r, error))
         /\ Finish(r, "throw", error)

\* After the await: read response.status (which throws when the response is
\* undefined), build logData, make the one log call, return the response.
AfterReturn(r, response) ==
    IF IsNullish(response)
    THEN /\ Finish(r, "throw", PropertyTypeError("status"))
         /\ UNCHANGED <<calls, sinkWrites, esBuffer>>
    ELSE LET c == ClassifyStatus(response.status)
         IN  /\ LogCall(r, c.fn, c.type, LogData(r, response.status))
             /\ Finish(r, "return", response)

MutResumeUnsettled(r) ==
    /\ req[r].pc \in {"AWAITING", "SETTLED"}
    /\ IF req[r].outcome.kind = "throw"
       THEN AfterRaise(r, req[r].outcome.value)
       ELSE AfterReturn(r, req[r].outcome.value)
    /\ UNCHANGED <<env, tz, now, logLevel, streams, esInflight, esBatches,
                   consoleLog, logTime, indexKey>>

\* The middleware resumes once context.next() has settled and runs to its
\* end without suspending again.
Resume(r) ==
    /\ req[r].pc = "SETTLED"
    /\ IF req[r].outcome.kind = "throw"
       THEN AfterRaise(r, req[r].outcome.value)
       ELSE AfterReturn(r, req[r].outcome.value)
    /\ UNCHANGED <<env, tz, now, logLevel, streams, esInflight, esBatches,
                   consoleLog, logTime, indexKey>>

-----------------------------------------------------------------------------
(* Remote sink: elk-logger.js, streamToElasticSearch and its listeners.    *)

DeliveryEvents == {"insert", "insertError", "unknown", "error"}

EventLabel(ev) ==
    CASE ev = "insert" -> "ELK INSERT"
      [] ev = "insertError" -> "ELK INSERTERROR"
      [] ev = "unknown" -> "ELK UNKNOWN"
      [] ev = "error" -> "ELK ERROR"

\* index: (logTime) => getIndexFromLogTime(logTime), applied to each record.
TagBatch(buffer) ==
    [i \in DOMAIN buffer |->
        [index |-> getIndexFromLogTime(buffer[i].time, tz), doc |-> buffer[i]]]

MutFlushHeadOnly ==
    /\ esBuffer # <<>>
    /\ esInflight' = Append(esInflight, TagBatch(<<Head(esBuffer)>>))
    /\ esBatches' = Append(esBatches, TagBatch(<<Head(esBuffer)>>))
    /\ esBuffer' = Tail(esBuffer)
    /\ UNCHANGED <<env, tz, now, logLevel, streams, req, calls, sinkWrites,
                   consoleLog, logTime, indexKey>>

\* flushInterval: 1_000 has elapsed: the sink sends what it has buffered, if
\* anything, as one batch; the outcome arrives later.  (One interval is a
\* second, far below the clock's step: it can elapse between any two steps.)
Flush ==
    /\ esBuffer # <<>>
    /\ esInflight' = Append(esInflight, TagBatch(esBuffer))
    /\ esBatches' = Append(esBatches, TagBatch(esBuffer))
    /\ esBuffer' = <<>>
    /\ UNCHANGED <<env, tz, now, logLevel, streams, req, calls, sinkWrites,
                   consoleLog, logTime, indexKey>>

\* flushBytes: 1_000
flushBytes == 1000

\* The text of a field's value in the serialised record: numbers bare, the
\* nested context object in braces, strings quoted.
JsonValue(k, v) ==
    CASE k \in {"status", "duration"} -> ToString(v)
      [] k = "context" ->
             "{\"errorType\":\"" \o v.errorType \o "\",\"duration\":"
                 \o ToString(v.duration) \o "}"
      [] OTHER -> "\"" \o v \o "\""

RECURSIVE FieldsBytes(_, _)
\* The bytes of the members "key":value, of the keys in ks.
FieldsBytes(f, ks) ==
    IF ks = {} THEN 0
    ELSE LET k == CHOOSE x \in ks : TRUE
         IN  Len("\"" \o k \o "\":") + Len(JsonValue(k, f[k])) + Len(",")
                 + FieldsBytes(f, ks \ {k})

\* The bytes a record adds to the bulk body: its action line, naming the
\* index, and its document line with the time, the level and the fields.
ByteLength(rec) ==
    Len("{\"index\":{\"_index\":\"" \o getIndexFromLogTime(rec.time, tz) \o "\"}}") + 1
    + Len("{\"@timestamp\":\"yyyy-mm-ddThh:mm:ss.sssZ\",\"log.level\":\"" \o rec.level \o "\",")
    + FieldsBytes(rec.fields, DOMAIN rec.fields) + 1

RECURSIVE SeqBytes(_)
SeqBytes(buffer) ==
    IF buffer = <<>> THEN 0 ELSE ByteLength(Head(buffer)) + SeqBytes(Tail(buffer))

\* The bytes buffered in the remote sink.
BufferBytes == SeqBytes(esBuffer)

\* The sink sends what it has buffered as soon as the buffered bytes reach
\* flushBytes, without waiting for the interval.
FlushOnBytes ==
    /\ BufferBytes >= flushBytes
    /\ esInflight' = Append(esInflight, TagBatch(esBuffer))
    /\ esBatches' = Append(esBatches, TagBatch(esBuffer))
    /\ esBuffer' = <<>>
    /\ UNCHANGED <<env, tz, now, logLevel, streams, req, calls, sinkWrites,
                   consoleLog, logTime, indexKey>>

MutListenerViaRouter(ev, arg) ==
    /\ consoleLog' = consoleLog
    /\ LogCall(0, "logError", EventLabel(ev), [message |-> "delivery outcome"])

MutListenerRequeue(ev, arg) ==
    /\ consoleLog' = Append(consoleLog, [label |-> EventLabel(ev), arg |-> arg])
    /\ esBuffer' = IF ev = "insert" THEN esBuffer
                   ELSE esBuffer \o [i \in DOMAIN arg |-> arg[i].doc]
    /\ UNCHANGED <<calls, sinkWrites>>

\* streamToElasticSearch.on(ev, (error) => console.log(label, error))
Listener(ev, arg) ==
    /\ consoleLog' = Append(consoleLog, [label |-> EventLabel(ev), arg |-> arg])
    /\ UNCHANGED <<calls, sinkWrites, esBuffer>>

\* The remote store answers the oldest pending batch and the sink emits the
\* matching event, which runs the listener registered for it with what the
\* event carries: the batch concerned.
Deliver(ev) ==
    /\ esInflight # <<>>
    /\ esInflight' = Tail(esInflight)
    /\ Listener(ev, Head(esInflight))
    /\ UNCHANGED <<env, tz, now, logLevel, streams, req, esBatches, logTime, indexKey>>

-----------------------------------------------------------------------------
(* The process.                                                            *)

\* The clock starts a quarter of an hour before midnight UTC of 2024-03-05.
ClockStart == UtcTime(2024, 3, 5, 23, 3)

Tick ==
    /\ now < ClockStart + MaxClock
    /\ now' = now + 1
    /\ UNCHANGED <<env, tz, logLevel, streams, req, calls, sinkWrites, esBuffer,
                   esInflight, esBatches, consoleLog, logTime, indexKey>>

\* The UTC offset of the processes that serve requests: UTC.  The index name
\* is studied over other offsets under SpecIndex.
ProcessOffsets == {0}

\* The state once elk-logger.js has been evaluated: logLevel resolved,
\* streams built, console.log({ logLevel }) written.
Init ==
    /\ env \in EnvValues
    /\ tz \in ProcessOffsets
    /\ now = ClockStart
    /\ logLevel = ResolveLogLevel(env)
    /\ streams = BuildStreams(env, logLevel)
    /\ req = [r \in Reqs |-> IdleRequest]
    /\ calls = [c \in Callers |-> <<>>]
    /\ sinkWrites = [s \in Sinks |-> EmptyBag]
    /\ esBuffer = <<>>
    /\ esInflight = <<>>
    /\ esBatches = <<>>
    /\ consoleLog = <<[label |-> "logLevel", arg |-> logLevel]>>
    /\ logTime = <<>>
    /\ indexKey = <<>>

Next ==
    \/ \E r \in Reqs, m \in Methods, u \in Urls : Enter(r, m, u)
    \/ \E r \in Reqs : \E o \in DownstreamOutcomes(r) : Settle(r, o)
    \/ \E r \in Reqs : Resume(r)
    \/ \E fn \in LogFns, t \in DirectTypes, d \in DirectPayloads \cup SinkPayloads :
           \/ DirectLog(fn, t, d)
           \/ \E f \in Sinks, how \in WriteFaults : FaultyLog(fn, t, d, f, how)
    \/ Flush
    \/ FlushOnBytes
    \/ \E ev \in DeliveryEvents : Deliver(ev)
    \/ Tick

Spec == Init /\ [][Next]_vars

\* The request boundary alone: the requests, the router and the sinks they
\* write to, and the clock.
NextBoundary ==
    \/ \E r \in Reqs, m \in Methods, u \in Urls : Enter(r, m, u)
    \/ \E r \in Reqs : \E o \in DownstreamOutcomes(r) : Settle(r, o)
    \/ \E r \in Reqs : Resume(r)
    \/ Tick

SpecBoundary == Init /\ [][NextBoundary]_vars

\* The router and the sinks alone, driven by direct calls.
NextRouter ==
    \/ \E fn \in LogFns, t \in DirectTypes, d \in DirectPayloads : DirectLog(fn, t, d)
    \/ Flush
    \/ \E ev \in DeliveryEvents : Deliver(ev)
    \/ Tick

SpecRouter == Init /\ [][NextRouter]_vars

\* The calls that feed the remote sink: one at the lowest level every remote environment
\* but test drops, one at the level every environment admits.
SinkFns == {"logInfo", "logError"}

\* The environments in which the remote sink exists.
InitSink == Init /\ env \in RemoteEnvs

\* The remote sink's buffer and what feeds and empties it: direct calls, the
\* two flush triggers and the clock.
NextSink ==
    \/ \E fn \in SinkFns, t \in DirectTypes, d \in SinkPayloads : DirectLog(fn, t, d)
    \/ Flush
    \/ FlushOnBytes
    \/ Tick

\* The event loop runs a timer callback that is due and resumes the sink's
\* consumer when it has work: both flushes are weakly fair.
SpecSink == InitSink /\ [][NextSink]_vars /\ WF_vars(Flush) /\ WF_vars(FlushOnBytes)

\* The outcomes after which the middleware makes a log call, one for each
\* function it calls and one raised failure.
LoggedOutcomes(r) ==
    {o \in DownstreamOutcomes(r) :
        /\ ~IsNullish(o.value)
        /\ o.kind = "return" => o.value.status \in {200, 400, 500}}

\* The router's fan-out when a stream's write can go wrong.
NextFanout ==
    \/ \E fn \in LogFns, t \in DirectTypes, d \in DirectPayloads : DirectLog(fn, t, d)
    \/ \E fn \in LogFns, t \in DirectTypes, d \in DirectPayloads :
           \E f \in Sinks, how \in WriteFaults : FaultyLog(fn, t, d, f, how)
    \/ Tick

SpecFanout == Init /\ [][NextFanout]_vars

\* Several requests in flight at once in a process that has the remote sink,
\* their log calls interleaved with each other and with the flush timer.
NextConcurrent ==
    \/ \E r \in Reqs, m \in Methods, u \in Urls : Enter(r, m, u)
    \/ \E r \in Reqs : \E o \in LoggedOutcomes(r) : Settle(r, o)
    \/ \E r \in Reqs : Resume(r)
    \/ Flush
    \/ Tick

SpecConcurrent == InitSink /\ [][NextConcurrent]_vars

-----------------------------------------------------------------------------
(* getIndexFromLogTime on its own: two timestamps and a UTC offset are     *)
(* drawn, and the function is applied to both.                             *)

ExampleTime == UtcTime(2024, 3, 5, 10, 0)

IndexTimes ==
    { ExampleTime,
      UtcTime(2024, 3, 5, 23, 3), UtcTime(2024, 3, 6, 0, 0),
      UtcTime(2024, 3, 31, 23, 3), UtcTime(2024, 4, 1, 0, 0),
      UtcTime(2024, 2, 28, 23, 3), UtcTime(2024, 2, 29, 12, 0), UtcTime(2024, 3, 1, 0, 0),
      UtcTime(2023, 2, 28, 23, 3), UtcTime(2023, 3, 1, 0, 0),
      UtcTime(2023, 12, 31, 23, 3), UtcTime(2024, 1, 1, 0, 0),
      UtcTime(2100, 2, 28, 23, 3), UtcTime(2100, 3, 1, 0, 0),
      UtcTime(1970, 1, 1, 0, 0),
      UtcTime(10000, 1, 1, 12, 0) }

\* UTC-12:00, UTC-11:00, UTC-10:00, UTC, UTC+05:30, UTC+13:45 and UTC+14:00.
IndexOffsets == {-12 * 4, -11 * 4, -10 * 4, 0, 5 * 4 + 2, 13 * 4 + 3, 14 * 4}

InitIndex ==
    /\ env = "production"
    /\ tz \in IndexOffsets
    /\ now = ClockStart
    /\ logLevel = ResolveLogLevel(env)
    /\ streams = BuildStreams(env, logLevel)
    /\ req = [r \in Reqs |-> IdleRequest]
    /\ calls = [c \in Callers |-> <<>>]
    /\ sinkWrites = [s \in Sinks |-> EmptyBag]
    /\ esBuffer = <<>>
    /\ esInflight = <<>>
    /\ esBatches = <<>>
    /\ consoleLog = <<[label |-> "logLevel", arg |-> logLevel]>>
    /\ logTime \in IndexTimes \X IndexTimes
    /\ indexKey = <<>>

ComputeIndex ==
    /\ logTime # <<>>
    /\ indexKey = <<>>
    /\ indexKey' = [i \in DOMAIN logTime |-> getIndexFromLogTime(logTime[i], tz)]
    /\ UNCHANGED <<env, tz, now, logLevel, streams, req, calls, sinkWrites, esBuffer,
                   esInflight, esBatches, consoleLog, logTime>>

NextIndex == ComputeIndex

SpecIndex == InitIndex /\ [][NextIndex]_vars

-----------------------------------------------------------------------------
(* The calendar, stated on its own for the properties of the index name.   *)

IsLeap(y) == (y % 4 = 0 /\ y % 100 # 0) \/ y % 400 = 0

DaysInMonth(y, m) ==
    IF m = 2 THEN (IF IsLeap(y) THEN 29 ELSE 28)
    ELSE IF m \in {4, 6, 9, 11} THEN 30 ELSE 31

ValidDate(y, m, d) == m \in 1..12 /\ d \in 1..DaysInMonth(y, m)

\* The years the sampled timestamps can fall in, in any offset.
CandidateYears == {1969, 1970, 2023, 2024, 2100, 10000}

CandidateDates ==
    {date \in CandidateYears \X (1..12) \X (1..31) : ValidDate(date[1], date[2], date[3])}

\* Timestamp t falls, in the process's time zone, on the calendar date y-m-d.
OnLocalDate(t, date) ==
    LET start == DaysFromCivil(date[1], date[2], date[3]) * QuartersPerDay
    IN  start <= t + tz /\ t + tz < start + QuartersPerDay

Digit(n) == ToString(n % 10)
TwoDigits(n) == Digit(n \div 10) \o Digit(n)
FourDigits(n) == Digit(n \div 1000) \o Digit(n \div 100) \o Digit(n \div 10) \o Digit(n)

\* logstash-YYYY.MM.DD with a four-digit year.
DateKey(date) ==
    "logstash-" \o FourDigits(date[1]) \o "." \o TwoDigits(date[2]) \o "." \o TwoDigits(date[3])

FourDigitYears == 1000..9999

\* The components of a key: what follows "logstash-" up to the last two dots.
KeyYear(k) == SubSeq(k, 10, Len(k) - 6)
KeyMonth(k) == SubSeq(k, Len(k) - 4, Len(k) - 3)
KeyDay(k) == SubSeq(k, Len(k) - 1, Len(k))

IndexComputed == indexKey # <<>>

ExampleOffsets == (-10 * 4)..(13 * 4 + 3)

SameLocalDay == (logTime[1] + tz) \div QuartersPerDay = (logTime[2] + tz) \div QuartersPerDay

NextLocalDay == (logTime[1] + tz) \div QuartersPerDay + 1 = (logTime[2] + tz) \div QuartersPerDay

\* C9 as stated: same calendar day, same key; across a day boundary the keys
\* differ by exactly one day component (the year and month components agree).
C9_AsStated ==
    IndexComputed =>
        /\ SameLocalDay => indexKey[1] = indexKey[2]
        /\ NextLocalDay =>
               /\ KeyYear(indexKey[1]) = KeyYear(indexKey[2])
               /\ KeyMonth(indexKey[1]) = KeyMonth(indexKey[2])
               /\ KeyDay(indexKey[1]) # KeyDay(indexKey[2])

\* The calendar date after y-m-d.
NextDate(date) ==
    IF date[3] < DaysInMonth(date[1], date[2]) THEN <<date[1], date[2], date[3] + 1>>
    ELSE IF date[2] < 12 THEN <<date[1], date[2] + 1, 1>>
    ELSE <<date[1] + 1, 1, 1>>

\* logstash-Y.MM.DD with the year written in full.
DateKeyFull(date) ==
    "logstash-" \o ToString(date[1]) \o "." \o TwoDigits(date[2]) \o "." \o TwoDigits(date[3])

\* C9, amended: two timestamps in the same local calendar day get the same
\* key; two timestamps in consecutive local calendar days get different keys,
\* the keys of consecutive calendar dates: only the day component differs
\* unless the first day ends its month, where the month component (and at a
\* year's end the year component) differs too.
C9_KeysFollowLocalDays ==
    IndexComputed =>
        /\ SameLocalDay => indexKey[1] = indexKey[2]
        /\ NextLocalDay =>
               /\ indexKey[1] # indexKey[2]
               /\ \E date \in CandidateDates :
                      /\ indexKey[1] = DateKeyFull(date)
                      /\ indexKey[2] = DateKeyFull(NextDate(date))
                      /\ date[3] < DaysInMonth(date[1], date[2]) =>
                             /\ KeyYear(indexKey[1]) = KeyYear(indexKey[2])
                             /\ KeyMonth(indexKey[1]) = KeyMonth(indexKey[2])

\* C9's case: two timestamps a quarter of an hour apart on either side of the
\* local midnight that ends March, and the keys computed.
C9_Witness ==
    /\ IndexComputed
    /\ tz = 0
    /\ logTime = <<UtcTime(2024, 3, 31, 23, 3), UtcTime(2024, 4, 1, 0, 0)>>
    /\ indexKey = <<"logstash-2024.03.31", "logstash-2024.04.01">>

-----------------------------------------------------------------------------
(* Properties of the request boundary (checked under SpecBoundary).        *)

Done(r) == req[r].pc = "DONE"

Raised(r) == req[r].outcome.kind = "throw"

Returned(r) == req[r].outcome.kind = "return"

\* C1: a request whose downstream handler has settled, with any returned or
\* raised value, has made exactly one log call once it is over, and no request
\* ever makes two.
C1_ExactlyOneLogCall ==
    \A r \in Reqs :
        /\ Len(calls[r]) <= 1
        /\ Done(r) => Len(calls[r]) = 1

\* C2: when the downstream handler raised, the boundary has made one logError
\* call tagged UnhandledError whose payload.error is the failure's message (when
\* it has one), and has raised that same failure value to its caller.
C2_FailureLoggedAndReraised ==
    \A r \in Reqs :
        (Done(r) /\ Raised(r)) =>
            /\ Len(calls[r]) = 1
            /\ calls[r][1].fn = "logError"
            /\ calls[r][1].type = "UnhandledError"
            /\ ~IsNullish(req[r].outcome.value) =>
                   calls[r][1].data.error = req[r].outcome.value.message
            /\ req[r].result = [kind |-> "throw", value |-> req[r].outcome.value]

\* The log call the status s is to give.
ExpectedCall(s) ==
    IF s >= 500 THEN <<"logError", "ResponseError">>
    ELSE IF 400 <= s /\ s < 500 THEN <<"logWarn", "ResponseWarning">>
    ELSE <<"logInfo", "ResponseSuccess">>

\* C3: when the downstream handler returned a response with status s, the one
\* log call is the one s selects (error/ResponseError from 500, warn/
\* ResponseWarning from 400 to 499, info/ResponseSuccess below 400), it carries
\* s, and the boundary has returned that same response.
C3_StatusSelectsCall ==
    \A r \in Reqs :
        (Done(r) /\ Returned(r) /\ ~IsNullish(req[r].outcome.value)) =>
            /\ Len(calls[r]) = 1
            /\ <<calls[r][1].fn, calls[r][1].type>> = ExpectedCall(req[r].outcome.value.status)
            /\ LevelOf(calls[r][1].fn) \in {"error", "warn", "info"}
            /\ calls[r][1].data.status = req[r].outcome.value.status
            /\ req[r].result = [kind |-> "return", value |-> req[r].outcome.value]

\* C3's case: one finished request whose downstream returned 500 and one whose
\* downstream returned 400, each with its log call made.
C3_Witness ==
    /\ Done(1) /\ Returned(1) /\ ~IsNullish(req[1].outcome.value)
    /\ req[1].outcome.value.status = 500 /\ calls[1][1].fn = "logError"
    /\ Done(2) /\ Returned(2) /\ ~IsNullish(req[2].outcome.value)
    /\ req[2].outcome.value.status = 400 /\ calls[2][1].fn = "logWarn"
    /\ req[2].result.value = Response(2, 400)

\* C4: what the caller observes is the downstream handler's outcome and
\* nothing else: the response it returned or the failure it raised, never a
\* failure of the logging path.
C4_CallerSeesDownstreamOutcome ==
    \A r \in Reqs : Done(r) => req[r].result = req[r].outcome

\* C16: a request goes through capture and invocation, settling, the one log
\* call, and the return or raise, in that order: it has made no log call while
\* the downstream handler has not settled (nor before it resumes), and it has
\* returned or raised only with its one log call made, at or after its start
\* time.
C16_EventsInOrder ==
    \A r \in Reqs :
        /\ req[r].pc \in {"IDLE", "AWAITING"} =>
               calls[r] = <<>> /\ req[r].outcome = NoOutcome /\ req[r].result = NoOutcome
        /\ req[r].pc = "SETTLED" =>
               calls[r] = <<>> /\ req[r].outcome # NoOutcome /\ req[r].result = NoOutcome
        /\ Done(r) =>
               /\ req[r].outcome # NoOutcome /\ req[r].result # NoOutcome
               /\ Len(calls[r]) = 1
               /\ req[r].startTime <= calls[r][1].at

\* C18: as long as the downstream handler of a request has not settled, the
\* request has made no log call and is not over, however far the rest of the
\* process has moved on: a request whose handler never settles stays at zero
\* log calls and never reaches a terminal state.
C18_NoCallWithoutSettling ==
    \A r \in Reqs :
        req[r].outcome = NoOutcome =>
            /\ Len(calls[r]) = 0
            /\ req[r].pc \in {"IDLE", "AWAITING"}
            /\ req[r].result = NoOutcome

\* C18's case: request 1 is still awaiting its downstream handler after the
\* clock has advanced and request 2, started no earlier, has run to its end
\* with its log call made; request 1 has made none.
C18_Witness ==
    /\ req[1].pc = "AWAITING"
    /\ req[1].startTime < now
    /\ calls[1] = <<>>
    /\ Done(2)
    /\ req[1].startTime <= req[2].startTime
    /\ Len(calls[2]) = 1
    /\ calls[2][1].at = now

-----------------------------------------------------------------------------
(* Properties of the router and the sinks (checked under SpecRouter).      *)

\* Every call made so far, by caller and position.
CallIds == UNION {{<<c, i>> : i \in DOMAIN calls[c]} : c \in Callers}

CallAt(id) == calls[id[1]][id[2]]

\* A sink's threshold, as the streams list gives it.
Threshold(s) == streams[CHOOSE i \in DOMAIN streams : streams[i].sink = s].level

\* The number of calls made so far at severity l and time t.
CallsAt(l, t) ==
    Cardinality({id \in CallIds : LevelOf(CallAt(id).fn) = l /\ CallAt(id).at = t})

\* The number of records of severity l and time t written to sink s.
WritesAt(s, l, t) ==
    LET B == sinkWrites[s]
        recs == {rec \in BagToSet(B) : rec.level = l /\ rec.time = t}
    IN  BagCardinality([rec \in recs |-> B[rec]])

\* The times at which a call was made or a written record is stamped.
LogTimes ==
    {CallAt(id).at : id \in CallIds}
    \cup UNION {{rec.time : rec \in BagToSet(sinkWrites[s])} : s \in Sinks}

\* C5: every sink in the streams list holds, for the calls made at each
\* severity and time, no write when the severity is below the sink's threshold
\* and exactly one write per call when it is at or above it, so that identical
\* calls give as many writes; a sink that is not in the list holds nothing.
C5_OneWritePerAdmittedCall ==
    \A s \in Sinks :
        /\ \A rec \in BagToSet(sinkWrites[s]) : rec.level \in Severities
        /\ \A l \in Severities, t \in LogTimes :
               WritesAt(s, l, t) =
                   IF s \in EnabledSinks /\ LevelNum(l) >= LevelNum(Threshold(s))
                   THEN CallsAt(l, t)
                   ELSE 0

\* C5's case: in the staging environment (threshold warn, both sinks enabled)
\* two identical logWarn calls have put two copies of one record in each
\* sink, and nothing in the sink that is not enabled.
C5_Witness ==
    /\ env = "staging"
    /\ Len(calls[0]) = 2
    /\ calls[0][1].fn = "logWarn"
    /\ calls[0][2] = calls[0][1]
    /\ \A s \in {"stdout", "elasticsearch"} :
           \E rec \in BagToSet(sinkWrites[s]) :
               /\ rec.level = "warn"
               /\ CopiesIn(rec, sinkWrites[s]) = 2
    /\ sinkWrites["pretty"] = EmptyBag

\* The threshold the documented table gives an APPLICATION_ENV value.
ThresholdTable(e) ==
    CASE e = "development" -> "debug"
      [] e = "test" -> "info"
      [] e = "staging" -> "warn"
      [] e = "production" -> "error"
      [] OTHER -> "info"

\* C6: the threshold resolved at startup is the table's value for
\* development, test, staging and production and info for every other value of
\* APPLICATION_ENV, the unset one included.
C6_ThresholdFollowsTable == logLevel = ThresholdTable(env)

\* C7: every admitted call has a record in an enabled sink that carries the
\* call's time and severity, the category the caller gave under the function's
\* key, and the application identity: no payload key has replaced them.
C7_EnvelopeKept ==
    \A id \in CallIds :
        LET call == CallAt(id)
        IN  LoggerAdmits(LevelOf(call.fn)) =>
                \E s \in EnabledSinks :
                    \E rec \in BagToSet(sinkWrites[s]) :
                        /\ rec.time = call.at
                        /\ rec.level = LevelOf(call.fn)
                        /\ rec.fields[CategoryKey(call.fn)] = call.type
                        /\ rec.fields.Application = APPLICATION_NAME

\* C10: a step in which the remote sink reports a delivery outcome writes one
\* ELK line with console.log and leaves the calls made, every sink's writes
\* and the remote buffer as they were.
C10_OutcomeOnlyToConsole ==
    [][Len(esInflight') < Len(esInflight) =>
          /\ calls' = calls
          /\ sinkWrites' = sinkWrites
          /\ esBuffer' = esBuffer
          /\ Len(consoleLog') = Len(consoleLog) + 1
          /\ SubSeq(consoleLog', 1, Len(consoleLog)) = consoleLog
          /\ consoleLog'[Len(consoleLog')].label \in {EventLabel(ev) : ev \in DeliveryEvents}]_vars

\* C10's case: a batch was sent, the store failed it, and the listener ran:
\* the console holds the ELK ERROR line while the record's one enqueue is the
\* only one.
C10_Witness ==
    /\ Len(consoleLog) = 2
    /\ consoleLog[2].label = "ELK ERROR"
    /\ Len(esBatches) = 1
    /\ esBuffer = <<>>
    /\ esInflight = <<>>
    /\ BagCardinality(sinkWrites["elasticsearch"]) = 1

\* The positions of the documents sent so far: batch number and place in it.
SentIds == UNION {{<<b, i>> : i \in DOMAIN esBatches[b]} : b \in DOMAIN esBatches}

\* The number of times record rec was sent to the remote store.
TimesSent(rec) == Cardinality({id \in SentIds : esBatches[id[1]][id[2]].doc = rec})

\* The number of copies of rec waiting in the remote sink's buffer.
TimesBuffered(rec) == Cardinality({i \in DOMAIN esBuffer : esBuffer[i] = rec})

\* The number of times rec was written to (enqueued in) the remote sink.
TimesEnqueued(rec) == CopiesIn(rec, sinkWrites["elasticsearch"])

\* Every record the remote sink has seen, written, buffered or sent.
RemoteRecords ==
    BagToSet(sinkWrites["elasticsearch"])
    \cup {esBuffer[i] : i \in DOMAIN esBuffer}
    \cup {esBatches[id[1]][id[2]].doc : id \in SentIds}

FailureLabels == {EventLabel(ev) : ev \in DeliveryEvents \ {"insert"}}

FailureReported(i) == i \in DOMAIN consoleLog /\ consoleLog[i].label \in FailureLabels

DocumentedSinks(e) ==
    {IF e = "development" THEN "pretty" ELSE "stdout"}
    \cup (IF e \in {"production", "staging", "test"} THEN {"elasticsearch"} ELSE {})

\* C15: at every moment the streams list holds exactly the sinks documented
\* for APPLICATION_ENV, each once, and no step changes the list or the
\* environment it was built from.
C15_SinkSetFixed ==
    /\ [](/\ EnabledSinks = DocumentedSinks(env)
          /\ Len(streams) = Cardinality(DocumentedSinks(env)))
    /\ [][streams' = streams /\ env' = env]_vars

\* C15's case: a process without the remote sink (an environment that is not
\* in the table) has taken two calls and moved its clock, and still writes to
\* plain standard output only.
C15_Witness ==
    /\ env = "qa"
    /\ EnabledSinks = {"stdout"}
    /\ Len(calls[0]) = 2
    /\ now > ClockStart
    /\ BagCardinality(sinkWrites["stdout"]) = 2
    /\ sinkWrites["elasticsearch"] = EmptyBag
    /\ esBatches = <<>>

\* Every record written to some sink so far.
AllWritten == UNION {BagToSet(sinkWrites[s]) : s \in Sinks}

\* A record of a response, by its status, and a record of an unhandled failure.
IsResponseRecord(rec) == "status" \in DOMAIN rec.fields

IsUnhandledRecord(rec) ==
    "errorType" \in DOMAIN rec.fields /\ rec.fields.errorType = "UnhandledError"

\* C17: the router's level and every listed sink's level are one value; for
\* the requests' log calls at each severity and time, every enabled sink holds
\* one record per call when the severity is at or above that value and none
\* otherwise, the same in all sinks; in production the only records in any sink
\* are those of responses with status 500 or more and of unhandled failures,
\* and in staging no sink holds a record of a response with status below 400.
C17_AllOrNothingAcrossSinks ==
    /\ \A i \in DOMAIN streams : streams[i].level = logLevel
    /\ \A l \in Severities, t \in LogTimes :
           \A s \in EnabledSinks :
               WritesAt(s, l, t) =
                   IF LevelNum(l) >= LevelNum(logLevel) THEN CallsAt(l, t) ELSE 0
    /\ env = "production" =>
           \A rec \in AllWritten :
               \/ IsResponseRecord(rec) /\ rec.fields.status >= 500
               \/ IsUnhandledRecord(rec)
    /\ env = "staging" =>
           \A rec \in AllWritten : IsResponseRecord(rec) => rec.fields.status >= 400

\* C17's case: in staging one request ended with status 400 and the other with
\* status 200: the first has its warn record in both sinks, the second has a
\* record in neither.
C17_Witness ==
    /\ env = "staging"
    /\ Done(1) /\ Done(2)
    /\ Len(calls[1]) = 1 /\ calls[1][1].fn = "logWarn" /\ calls[1][1].data.status = 400
    /\ Len(calls[2]) = 1 /\ calls[2][1].fn = "logInfo" /\ calls[2][1].data.status = 200
    /\ \A s \in {"stdout", "elasticsearch"} :
           /\ BagCardinality(sinkWrites[s]) = 1
           /\ \A rec \in BagToSet(sinkWrites[s]) : rec.level = "warn" /\ rec.fields.status = 400

-----------------------------------------------------------------------------
(* Properties of the remote sink's flush cycle (checked under SpecSink).   *)

\* The number of records enqueued in the remote sink, and sent by it, so far.
NumEnqueued == BagCardinality(sinkWrites["elasticsearch"])

NumSent == Cardinality(SentIds)

\* The batch that sending the whole buffer makes: every buffered record, in
\* order, each under the index of its own time.
WholeBuffer ==
    [i \in DOMAIN esBuffer |->
        [index |-> getIndexFromLogTime(esBuffer[i].time, tz), doc |-> esBuffer[i]]]

-----------------------------------------------------------------------------
(* Properties of the fan-out (checked under SpecFanout).                   *)

\* The sink whose write went wrong during a call, if any.
FaultOf(call) == IF "fault" \in DOMAIN call THEN call.fault ELSE "none"

\* The number of calls made so far at severity l and time t during which the
\* write to sink s did not go wrong.
SoundCallsAt(s, l, t) ==
    Cardinality({id \in CallIds :
        /\ LevelOf(CallAt(id).fn) = l
        /\ CallAt(id).at = t
        /\ FaultOf(CallAt(id)) # s})

\* C14: a sink that admits a call's severity holds one write for every call
\* during which its own write did not go wrong, whether or not the write to
\* another sink raised or stalled during that call.
C14_SinksIndependent ==
    \A s \in EnabledSinks :
        \A l \in Severities, t \in LogTimes :
            LevelNum(l) >= LevelNum(Threshold(s)) =>
                WritesAt(s, l, t) = SoundCallsAt(s, l, t)

====
